---- MODULE Spec2Model ----
(***************************************************************************)
(* Model of withConcurrency (src/functions/promise.ts): a pool of async    *)
(* workers pulling entries from a shared cursor, with retry, retry delay,  *)
(* timeout, cancellation and fail-fast.  One action is one synchronous     *)
(* run of code between two awaits (one turn of the cooperative scheduler). *)
(***************************************************************************)
EXTENDS Integers, Sequences, FiniteSets, TLC

\* ---- bounds of the model ----
MaxTasks == 2
MaxRetry == 1
MaxSleep == 3
MaxWait == 2
MaxCalls == 3
MaxSchedules == 2

\* ---- program constants ----
Infinity == 1000000
TimeoutMs == 50
ScheduleDelayMs == 1
RetryDelayMs == 10

Values == {"a", "b"}

VARIABLES
  \* the call's arguments
  isArray, taskKeys, concurrency, timeout, retry, retryDelay,
  throwOnFirstError, ignoreErrors,
  \* run state (promise.ts 88-99)
  resultEntries, errors, taskIndex, succeeded, failed, stopped, firstError,
  \* the workers: position, claimed index, attempt counter of runTask
  wpc, widx, attempt,
  \* the caller's position, the timeout sleep, the race and the outcome
  phase, timer, settledBy, outcome,
  \* environment: the AbortSignal
  aborted,
  \* observation: per entry, thunk invocations started, in flight and
  \* rejected, and the value it resolved with; the entries in the order they
  \* were claimed and in the order of their terminal failures
  invoked, inflight, rejections, resolvedWith, claimOrder, failOrder,
  \* observation: was the signal aborted when the call was made, and what
  \* resolved the timeout sleep ("none", "time" or "abort")
  abortedAtCall, timerCause,
  \* observation: the entries that were in their retry delay when the signal
  \* aborted
  abortedInDelay,
  \* one call of sleep(time, signal) (utils-core.ts 84-107): its arguments,
  \* the signal, the position of the call, the setTimeout, the abort
  \* listener, the calls of resolve, the promise, the time since the call
  \* and the time at which the promise settled
  sTime, sHasSignal, sAborted, sPc, sTimer, sListener, sResolveCalls,
  sPromise, sClock, sSettledAt,
  \* one debounced function (utils-core.ts 157-212): wait, immediate, the
  \* closure's timeoutId (is it defined) and lastArgs, the one live timer and
  \* its due time, the clock; observation: the calls made, time and argument
  \* of the latest call, calls since the last invocation of the wrapped
  \* function, and the invocations of the wrapped function
  dWait, dImmediate, dTimeoutId, dLastArgs, dTimerPending, dDue, dClock,
  dCalls, dLastCallAt, dLastCallArg, dCallsSince, dInvocations,
  \* one throttled function (utils-core.ts 269-339): wait, leading, trailing,
  \* the closure's timeoutId (is it defined), lastArgs and lastCallTime
  \* (0 for undefined), the due times of the live timers in the order they
  \* were set, Date.now(); observation: the calls made and the times of the
  \* invocations of the wrapped function
  tWait, tLeading, tTrailing, tTimeoutId, tLastArgs, tLastCallTime, tTimers,
  tNow, tCalls, tInvokedAt,
  \* the scheduled tasks (schedule.ts 44-76), per task: retry, delay, the
  \* position, triesLeft of the attempt queued or running, the due time of
  \* its setTimeout; the clock; observation per task: the runs of the task,
  \* the number of its failures, the time of the last one and whether it
  \* succeeded
  schRetry, schDelay, schPc, schTriesLeft, schDue, schClock, schRuns,
  schFailures, schFailedAt, schSucceeded

opts == <<isArray, taskKeys, concurrency, timeout, retry, retryDelay,
          throwOnFirstError, ignoreErrors>>
runState == <<resultEntries, errors, taskIndex, succeeded, failed, stopped,
              firstError>>
workerState == <<wpc, widx, attempt>>
obs == <<invoked, inflight, rejections, resolvedWith, claimOrder, failOrder>>
sleepVars == <<sTime, sHasSignal, sAborted, sPc, sTimer, sListener,
               sResolveCalls, sPromise, sClock, sSettledAt>>
debounceVars == <<dWait, dImmediate, dTimeoutId, dLastArgs, dTimerPending,
                  dDue, dClock, dCalls, dLastCallAt, dLastCallArg,
                  dCallsSince, dInvocations>>
throttleVars == <<tWait, tLeading, tTrailing, tTimeoutId, tLastArgs,
                  tLastCallTime, tTimers, tNow, tCalls, tInvokedAt>>
scheduleVars == <<schRetry, schDelay, schPc, schTriesLeft, schDue, schClock,
                  schRuns, schFailures, schFailedAt, schSucceeded>>
abortObs == <<abortedAtCall, abortedInDelay>>
utilVars == <<sleepVars, debounceVars, throttleVars, scheduleVars>>
vars == <<opts, runState, workerState, phase, timer, settledBy, outcome,
          aborted, obs, abortObs, timerCause, utilVars>>

Min(a, b) == IF a <= b THEN a ELSE b

\* idx.toString() for the indices a list input can have
IdxToString(i) ==
  CASE i = 0 -> "0" [] i = 1 -> "1" [] i = 2 -> "2" [] i = 3 -> "3"
    [] i = 4 -> "4"

\* Number(key) for the keys of a list input
Number(k) ==
  CASE k = "0" -> 0 [] k = "1" -> 1 [] k = "2" -> 2 [] k = "3" -> 3
    [] k = "4" -> 4

\* keys of a mapping input, in insertion order
MapKeys == <<"a", "b", "c", "d">>

\* taskKeys = Object.keys(taskMap) for an input of n entries
KeysOf(arr, n) ==
  [j \in 1..n |-> IF arr THEN IdxToString(j - 1) ELSE MapKeys[j]]

N == Len(taskKeys)

\* the pool sized by the number of entries alone
NumWorkersUnbounded == N

\* length of the workers array
NumWorkers == Min(concurrency, N)

Workers == 1..NumWorkers

\* the thrown value captured as it is
NormalizeErrorNone(err) == err

\* err instanceof Error ? err : new Error(String(err))
NormalizeError(err) ==
  IF err.isError THEN err ELSE [isError |-> TRUE, text |-> err.text]

\* firstError as a condition (null and undefined are falsy)
Truthy(fe) == fe.tag = "error"

\* the loop bound off by one
LoopCondStrict(a, st) == a < retry /\ ~st

\* the stopped flag not looked at by the retry loop
LoopCondNoStop(a, st) == a <= retry

\* while (attempt <= retry && !stopped)
LoopCond(a, st) == a <= retry /\ ~st

\* the last attempt taken to be the one before the last
IsFinalAttemptEarly(a) == a + 1 = retry

\* if (attempt === retry)
IsFinalAttempt(a) == a = retry

\* the attempt counter not incremented
NextAttemptSame(a) == a

\* attempt++
NextAttempt(a) == a + 1

\* the cursor read but not advanced
NextIndexSame(i) == i

\* the cursor advanced by two
NextIndexSkip(i) == i + 2

\* taskIndex++
NextIndex(i) == i + 1

\* the check that no error was captured before left out
FailFastCondNoGuard(fe) == ~ignoreErrors /\ throwOnFirstError

\* the ignoreErrors option left out
FailFastCondNoIgnore(fe) == throwOnFirstError /\ ~Truthy(fe)

\* the condition true whatever throwOnFirstError is
FailFastCondWithNoThrow(ie, fe) == ~ie /\ ~Truthy(fe)

\* !ignoreErrors && throwOnFirstError && !firstError for a value ie of the
\* ignoreErrors option
FailFastCondWith(ie, fe) == ~ie /\ throwOnFirstError /\ ~Truthy(fe)

\* if (!ignoreErrors && throwOnFirstError && !firstError)
FailFastCond(fe) == FailFastCondWith(ignoreErrors, fe)

\* the failure put in front of the captured ones
PushErrorFront(errs, error) == <<error>> \o errs

\* errors.push(error)
PushError(errs, error) == Append(errs, error)

Pending == [kind |-> "pending"]

\* no debounced function under observation
DebounceIdle ==
  /\ dWait = 0
  /\ dImmediate = FALSE
  /\ dTimeoutId = FALSE
  /\ dLastArgs = "undefined"
  /\ dTimerPending = FALSE
  /\ dDue = 0
  /\ dClock = 0
  /\ dCalls = 0
  /\ dLastCallAt = 0
  /\ dLastCallArg = "undefined"
  /\ dCallsSince = 0
  /\ dInvocations = <<>>

\* no throttled function under observation
ThrottleIdle ==
  /\ tWait = 0
  /\ tLeading = TRUE
  /\ tTrailing = TRUE
  /\ tTimeoutId = FALSE
  /\ tLastArgs = "undefined"
  /\ tLastCallTime = 0
  /\ tTimers = <<>>
  /\ tNow = 1
  /\ tCalls = 0
  /\ tInvokedAt = <<>>

\* no task scheduled
ScheduleIdle ==
  /\ schRetry = [i \in 1..MaxSchedules |-> 0]
  /\ schDelay = [i \in 1..MaxSchedules |-> 0]
  /\ schPc = [i \in 1..MaxSchedules |-> "idle"]
  /\ schTriesLeft = [i \in 1..MaxSchedules |-> 0]
  /\ schDue = [i \in 1..MaxSchedules |-> 0]
  /\ schClock = 0
  /\ schRuns = [i \in 1..MaxSchedules |-> 0]
  /\ schFailures = [i \in 1..MaxSchedules |-> 0]
  /\ schFailedAt = [i \in 1..MaxSchedules |-> 0]
  /\ schSucceeded = [i \in 1..MaxSchedules |-> FALSE]

\* no call of sleep under observation
SleepIdle ==
  /\ sTime = 0
  /\ sHasSignal = FALSE
  /\ sAborted = FALSE
  /\ sPc = "idle"
  /\ sTimer = "none"
  /\ sListener = FALSE
  /\ sResolveCalls = 0
  /\ sPromise = "pending"
  /\ sClock = 0
  /\ sSettledAt = 0

Init ==
  /\ isArray \in BOOLEAN
  /\ \E n \in 0..MaxTasks : taskKeys = KeysOf(isArray, n)
  /\ concurrency \in (1..MaxTasks) \cup {Infinity}
  /\ timeout \in {Infinity, TimeoutMs}
  /\ retry \in 0..MaxRetry
  /\ retryDelay \in {0, RetryDelayMs}
  /\ throwOnFirstError \in BOOLEAN
  /\ ignoreErrors \in BOOLEAN
  /\ resultEntries = <<>>
  /\ errors = <<>>
  /\ taskIndex = 0
  /\ succeeded = 0
  /\ failed = 0
  /\ stopped = FALSE
  /\ firstError = [tag |-> "undefined"]
  /\ wpc = [w \in 1..MaxTasks |-> "idle"]
  /\ widx = [w \in 1..MaxTasks |-> 0]
  /\ attempt = [w \in 1..MaxTasks |-> 0]
  /\ phase = "call"
  /\ timer = "unset"
  /\ settledBy = "none"
  /\ outcome = Pending
  /\ aborted \in BOOLEAN
  /\ invoked = [j \in 1..MaxTasks |-> 0]
  /\ inflight = [j \in 1..MaxTasks |-> 0]
  /\ rejections = [j \in 1..MaxTasks |-> 0]
  /\ resolvedWith = [j \in 1..MaxTasks |-> <<>>]
  /\ claimOrder = <<>>
  /\ failOrder = <<>>
  /\ abortedAtCall = aborted
  /\ abortedInDelay = {}
  /\ timerCause = "none"
  /\ SleepIdle
  /\ DebounceIdle
  /\ ThrottleIdle
  /\ ScheduleIdle

\* `Concurrence timed out after ${timeout}ms`
TimeoutError(t) ==
  [isError |-> TRUE,
   text |-> "Concurrence timed out after " \o ToString(t) \o "ms"]

\* what entry e's thunk throws: an Error (isErr) or a bare string, either way
\* with a text of its own
Thrown(e, isErr) == [isError |-> isErr, text |-> taskKeys[e]]

\* Array.prototype.sort((a, b) => Number(a[0]) - Number(b[0])), stable
RECURSIVE InsertEntry(_, _)
InsertEntry(sorted, x) ==
  IF sorted = <<>> THEN <<x>>
  ELSE IF Number(x[1]) - Number(Head(sorted)[1]) < 0
       THEN <<x>> \o sorted
       ELSE <<Head(sorted)>> \o InsertEntry(Tail(sorted), x)

\* the pairs left in completion order
SortEntriesNone(s) == s

RECURSIVE SortEntries(_)
SortEntries(s) ==
  IF s = <<>> THEN <<>>
  ELSE InsertEntry(SortEntries(SubSeq(s, 1, Len(s) - 1)), s[Len(s)])

\* resultEntries.sort(...).map(([, value]) => value)
ArrayResults(entries) ==
  LET sorted == SortEntries(entries)
  IN [j \in 1..Len(sorted) |-> sorted[j][2]]

\* the last completed pair left out
FromEntriesDropLast(entries) ==
  [k \in {entries[j][1] : j \in 1..(Len(entries) - 1)} |->
     LET first == CHOOSE j \in DOMAIN entries : entries[j][1] = k
     IN entries[first][2]]

\* Object.fromEntries(resultEntries): the last pair of a key wins
FromEntries(entries) ==
  [k \in {entries[j][1] : j \in DOMAIN entries} |->
     LET last == CHOOSE j \in DOMAIN entries :
                   /\ entries[j][1] = k
                   /\ \A m \in DOMAIN entries : entries[m][1] = k => m <= j
     IN entries[last][2]]

\* the object returned at lines 167-185 (duration left out); shape tells
\* the list built at 169-171 from the mapping built at 180
ResultObject ==
  [kind |-> "result", shape |-> IF isArray THEN "list" ELSE "mapping",
   results |-> IF isArray THEN ArrayResults(resultEntries)
               ELSE FromEntries(resultEntries),
   errors |-> errors, succeeded |-> succeeded, failed |-> failed]

\* the empty result always a list
EmptyResultList ==
  [kind |-> "result", shape |-> "list", results |-> <<>>, errors |-> <<>>,
   succeeded |-> 0, failed |-> 0, duration |-> 0]

\* the object returned at lines 78-86
EmptyResult ==
  [kind |-> "result", shape |-> IF isArray THEN "list" ELSE "mapping",
   results |-> <<>>, errors |-> <<>>, succeeded |-> 0, failed |-> 0,
   duration |-> 0]

Rejected(err) == [kind |-> "rejected", error |-> err]

\* the race never settled by mainPromise
MainSettlesNever(by) == by

\* the first of mainPromise and the timeout promise to settle wins the race
MainSettles(by) == IF by = "none" THEN "main" ELSE by

\* the timeout promise winning the race whenever it settles
TimerSettlesAlways(by) == "timer"

\* the timeout promise never deciding the race
TimerSettlesNever(by) == by

TimerSettles(by) == IF by = "none" THEN "timer" ELSE by

\* lines 53-99: destructure the options, build taskKeys, return at once for
\* an empty input, else create the run state
Enter ==
  /\ phase = "call"
  /\ IF N = 0
     THEN /\ outcome' = EmptyResult
          /\ phase' = "settled"
          /\ UNCHANGED firstError
     ELSE /\ phase' = "start"
          /\ firstError' = IF throwOnFirstError THEN [tag |-> "null"]
                           ELSE [tag |-> "undefined"]
          /\ UNCHANGED outcome
  /\ UNCHANGED <<utilVars, abortObs, timerCause, opts, resultEntries, errors, taskIndex, succeeded, failed,
                 stopped, workerState, timer, settledBy, aborted, obs>>

\* the two files that implement withConcurrency: functions/promise.ts and
\* functions/concurrency.ts, the same text line for line but for the
\* expression awaited by runTask (line 106 against lines 106-107)
Impls == {"promise", "concurrency"}

\* the task taken for a settled promise
TypeofTaskObject(e) == "object"

\* typeof task (concurrency.ts 107): the tasks of the inputs are thunks
TypeofTask(e) == "function"

\* whether the awaited expression calls the task of entry e: promise.ts
\* awaits taskMap[key]!(), concurrency.ts awaits
\* (typeof task === 'function' ? task() : task)
CallsTask(impl, e) ==
  IF impl = "concurrency" THEN TypeofTask(e) = "function" ELSE TRUE

\* the head of runTask's while loop (line 104) reached by worker w with
\* attempt counter a for entry e, `dec` in-flight invocations of e having
\* just settled: invoke the thunk again, or fall out of runTask
RunLoopOf(impl, w, a, e, dec) ==
  IF LoopCond(a, stopped')
  THEN /\ wpc' = [wpc EXCEPT ![w] = "running"]
       /\ invoked' = [invoked EXCEPT ![e] = IF CallsTask(impl, e)
                                            THEN @ + 1 ELSE @]
       /\ inflight' = [inflight EXCEPT ![e] = @ - dec + 1]
  ELSE /\ wpc' = [wpc EXCEPT ![w] = "returned"]
       /\ inflight' = [inflight EXCEPT ![e] = @ - dec]
       /\ UNCHANGED invoked

\* the loop head of functions/promise.ts
RunLoop(w, a, e, dec) == RunLoopOf("promise", w, a, e, dec)

\* the signal never looked at
SignalAbortedNever == FALSE

\* signal?.aborted (line 135)
SignalAborted == aborted

\* mainPromise settled by the first worker to return
PoolDoneAny(w) == TRUE

\* Promise.all(workers) (line 149): worker w returning is the last to
PoolDone(w) == \A v \in Workers \ {w} : wpc[v] = "done"

\* the stopped flag not looked at by the worker's loop
WorkerLoopCondAlways(st) == TRUE

\* while (!stopped) (line 132)
WorkerLoopCond(st) == ~st

\* lines 131-142 from the head of the worker's loop: leave when stopped or
\* when the cursor is exhausted, set stopped and leave when the signal is
\* aborted, else claim the entry and enter runTask up to its first await
WorkerStepOf(impl, w) ==
  LET i == taskIndex
      claim == WorkerLoopCond(stopped)
      cancelled == claim /\ i < N /\ SignalAborted
      run == claim /\ i < N /\ ~SignalAborted
  IN /\ taskIndex' = IF claim THEN NextIndex(taskIndex) ELSE taskIndex
     /\ stopped' = (stopped \/ cancelled)
     /\ IF run
        THEN /\ widx' = [widx EXCEPT ![w] = i]
             /\ attempt' = [attempt EXCEPT ![w] = 0]
             /\ claimOrder' = Append(claimOrder, i + 1)
             /\ RunLoopOf(impl, w, 0, i + 1, 0)
             /\ UNCHANGED settledBy
        ELSE /\ wpc' = [wpc EXCEPT ![w] = "done"]
             /\ settledBy' =
                  IF PoolDone(w)
                  THEN MainSettles(settledBy) ELSE settledBy
             /\ UNCHANGED <<widx, attempt, invoked, inflight, claimOrder>>
     /\ UNCHANGED <<utilVars, abortObs, timerCause, opts, resultEntries, errors, succeeded, failed,
                    firstError, phase, timer, outcome, aborted, rejections,
                    resolvedWith, failOrder>>

\* the worker of functions/promise.ts
WorkerStep(w) == WorkerStepOf("promise", w)

\* lines 144-147: Array.from calls worker() once per slot, in order
StartWorkerOf(impl, w) ==
  /\ phase = "start"
  /\ w \in Workers
  /\ wpc[w] = "idle"
  /\ \A v \in Workers : v < w => wpc[v] # "idle"
  /\ WorkerStepOf(impl, w)

StartWorker(w) == StartWorkerOf("promise", w)

\* lines 149-161: build mainPromise, start the timeout sleep when a timeout
\* is configured (sleep resolves at once on an aborted signal), and await
AwaitPool ==
  /\ phase = "start"
  /\ \A w \in Workers : wpc[w] # "idle"
  /\ phase' = "await"
  /\ IF timeout # Infinity
     THEN IF aborted
          THEN /\ timer' = "resolved"
               /\ timerCause' = "abort"
               /\ settledBy' = TimerSettles(settledBy)
          ELSE /\ timer' = "armed"
               /\ UNCHANGED <<settledBy, timerCause>>
     ELSE UNCHANGED <<timer, settledBy, timerCause>>
  /\ UNCHANGED <<utilVars, abortObs, opts, runState, workerState, outcome, aborted, obs>>

\* line 140 resumes after runTask returned: back to the loop head
WorkerResumeOf(impl, w) ==
  /\ w \in Workers
  /\ wpc[w] = "returned"
  /\ WorkerStepOf(impl, w)

WorkerResume(w) == WorkerResumeOf("promise", w)

\* the entry worker w works on (1-based position in taskKeys)
EntryOf(w) == widx[w] + 1

\* lines 106-109: the awaited thunk resolved with v
ThunkResolve(w, v) ==
  /\ phase \in {"await", "settled"}
  /\ w \in Workers
  /\ wpc[w] = "running"
  /\ resultEntries' = Append(resultEntries, <<taskKeys[EntryOf(w)], v>>)
  /\ succeeded' = succeeded + 1
  /\ wpc' = [wpc EXCEPT ![w] = "returned"]
  /\ inflight' = [inflight EXCEPT ![EntryOf(w)] = @ - 1]
  /\ resolvedWith' = [resolvedWith EXCEPT ![EntryOf(w)] = <<v>>]
  /\ UNCHANGED <<utilVars, abortObs, timerCause, opts, errors, taskIndex, failed, stopped, firstError, widx,
                 attempt, phase, timer, settledBy, outcome, aborted, invoked,
                 rejections, claimOrder, failOrder>>

\* lines 110-127: the awaited thunk threw or rejected with err, ff the
\* value of the condition of line 116
ThunkRejectOf(impl, ff, w, err) ==
  /\ phase \in {"await", "settled"}
  /\ w \in Workers
  /\ wpc[w] = "running"
  /\ rejections' = [rejections EXCEPT ![EntryOf(w)] = @ + 1]
  /\ IF IsFinalAttempt(attempt[w])
     THEN LET error == NormalizeError(err)
          IN /\ errors' = PushError(errors, error)
             /\ failed' = failed + 1
             /\ failOrder' = Append(failOrder, EntryOf(w))
             /\ IF ff
                THEN /\ firstError' = [tag |-> "error", error |-> error]
                     /\ stopped' = TRUE
                ELSE UNCHANGED <<firstError, stopped>>
             /\ wpc' = [wpc EXCEPT ![w] = "returned"]
             /\ inflight' = [inflight EXCEPT ![EntryOf(w)] = @ - 1]
             /\ UNCHANGED <<attempt, invoked>>
     ELSE /\ attempt' = [attempt EXCEPT ![w] = NextAttempt(@)]
          /\ UNCHANGED <<errors, failed, failOrder, firstError, stopped>>
          /\ IF retryDelay > 0
             THEN /\ wpc' = [wpc EXCEPT ![w] = "sleeping"]
                  /\ inflight' = [inflight EXCEPT ![EntryOf(w)] = @ - 1]
                  /\ UNCHANGED invoked
             ELSE RunLoopOf(impl, w, attempt'[w], EntryOf(w), 1)
  /\ UNCHANGED <<utilVars, abortObs, timerCause, opts, resultEntries, taskIndex, succeeded, widx, phase,
                 timer, settledBy, outcome, aborted, resolvedWith, claimOrder>>

ThunkReject(w, err) ==
  ThunkRejectOf("promise", FailFastCond(firstError), w, err)

\* a setTimeout callback runs only when no continuation is queued: no worker
\* is about to resume, no timeout callback and no return of the call pending
MicrotasksIdle ==
  /\ \A w \in Workers : wpc[w] # "returned"
  /\ timer # "resolved"
  /\ ~(phase = "await" /\ settledBy # "none")

\* line 125 resumes: the retry delay elapsed (utils-core.ts 88-91), or the
\* signal is aborted (utils-core.ts 86, 93-97); the callback of a timeout
\* sleep resolved by the same abort was queued first (its listener is the
\* older one) and runs before
RetryWakeOf(impl, w) ==
  /\ w \in Workers
  /\ wpc[w] = "sleeping"
  /\ (aborted /\ timer # "resolved") \/ MicrotasksIdle
  /\ UNCHANGED stopped
  /\ RunLoopOf(impl, w, attempt[w], EntryOf(w), 0)
  /\ UNCHANGED <<utilVars, abortObs, timerCause, opts, resultEntries, errors, taskIndex, succeeded, failed,
                 firstError, widx, attempt, phase, timer, settledBy, outcome,
                 aborted, rejections, resolvedWith, claimOrder, failOrder>>

RetryWake(w) == RetryWakeOf("promise", w)

\* the AbortSignal fires during the run (from the first thunk invoked on;
\* before that the call runs no code but its own): onAbort of an armed
\* timeout sleep resolves it (utils-core.ts 93-97)
Abort ==
  /\ phase # "call"
  /\ phase = "start" => wpc[1] # "idle"
  /\ ~aborted
  /\ aborted' = TRUE
  /\ IF timer = "armed"
     THEN /\ timer' = "resolved"
          /\ timerCause' = "abort"
          /\ settledBy' = TimerSettles(settledBy)
     ELSE UNCHANGED <<timer, settledBy, timerCause>>
  /\ abortedInDelay' = {EntryOf(w) : w \in {v \in Workers : wpc[v] = "sleeping"}}
  /\ UNCHANGED <<utilVars, abortedAtCall, opts, runState, workerState, phase, outcome, obs>>

\* the setTimeout of the timeout sleep fires (utils-core.ts 88-91)
TimerElapse ==
  /\ timer = "armed"
  /\ MicrotasksIdle
  /\ timer' = "resolved"
  /\ timerCause' = "time"
  /\ settledBy' = TimerSettles(settledBy)
  /\ UNCHANGED <<utilVars, abortObs, opts, runState, workerState, phase, outcome, aborted, obs>>

\* lines 154-157: the callback chained on the timeout sleep
TimerCallback ==
  /\ timer = "resolved"
  /\ timer' = "fired"
  /\ stopped' = TRUE
  /\ UNCHANGED <<utilVars, abortObs, timerCause, opts, resultEntries, errors, taskIndex, succeeded, failed,
                 firstError, workerState, phase, settledBy, outcome, aborted,
                 obs>>

\* the captured fail-fast error looked at before the outcome of the race
SettleFailFastFirst(by) ==
  IF Truthy(firstError) /\ throwOnFirstError
  THEN Rejected(firstError.error)
  ELSE IF by = "timer" THEN Rejected(TimeoutError(timeout))
       ELSE ResultObject

\* how the call settles once the await at 152/160 is over: the race was
\* rejected by the timeout promise (the error propagates), or mainPromise
\* won and lines 163-185 throw firstError or return the result
Settle(by) ==
  IF by = "timer" THEN Rejected(TimeoutError(timeout))
  ELSE IF Truthy(firstError) /\ throwOnFirstError
       THEN Rejected(firstError.error)
       ELSE ResultObject

\* lines 152-185 after the await: the race rejected with the timeout error,
\* or the pool settled and the run throws firstError or returns the result
Finish ==
  /\ phase = "await"
  /\ \/ settledBy = "timer" /\ timer = "fired"
     \/ settledBy = "main"
  /\ outcome' = Settle(settledBy)
  /\ phase' = "settled"
  /\ UNCHANGED <<utilVars, abortObs, timerCause, opts, runState, workerState, timer, settledBy, aborted, obs>>

Next ==
  \/ Enter
  \/ \E w \in 1..MaxTasks : StartWorker(w)
  \/ AwaitPool
  \/ \E w \in 1..MaxTasks : WorkerResume(w)
  \/ \E w \in 1..MaxTasks, v \in Values : ThunkResolve(w, v)
  \/ \E w \in 1..MaxTasks, isErr \in BOOLEAN :
       ThunkReject(w, Thrown(EntryOf(w), isErr))
  \/ \E w \in 1..MaxTasks : RetryWake(w)
  \/ Abort
  \/ TimerElapse
  \/ TimerCallback
  \/ Finish

Spec == Init /\ [][Next]_vars

\* ---- the run under the scheduling of the event loop ----

\* the code of the call itself: its synchronous start and the continuations
\* queued as microtasks, which the event loop runs to completion
CallSteps ==
  \/ Enter
  \/ \E w \in 1..MaxTasks : StartWorker(w)
  \/ AwaitPool
  \/ \E w \in 1..MaxTasks : WorkerResume(w)
  \/ TimerCallback
  \/ Finish

\* the setTimeout callbacks of sleep (utils-core.ts 88-91), which the event
\* loop runs once they are due and no microtask is queued
TimerSteps ==
  \/ TimerElapse
  \/ \E w \in 1..MaxTasks : RetryWake(w)

\* the promise of an invoked thunk settles
ThunkSettles ==
  \/ \E w \in 1..MaxTasks, v \in Values : ThunkResolve(w, v)
  \/ \E w \in 1..MaxTasks, isErr \in BOOLEAN :
       ThunkReject(w, Thrown(EntryOf(w), isErr))

\* the run with the event loop making progress and every thunk settling
LiveSpec ==
  /\ Init
  /\ [][Next]_vars
  /\ WF_vars(CallSteps)
  /\ WF_vars(TimerSteps)
  /\ WF_vars(ThunkSettles)

\* the run with the event loop making progress, thunks free never to settle
TimerLiveSpec ==
  /\ Init
  /\ [][Next]_vars
  /\ WF_vars(CallSteps)
  /\ WF_vars(TimerSteps)

\* ---- functions/concurrency.ts beside functions/promise.ts ----

\* the steps of the implementation impl: the handlers are those of Next, the
\* loop head of runTask the one of impl
NextOf(impl) ==
  \/ Enter
  \/ \E w \in 1..MaxTasks : StartWorkerOf(impl, w)
  \/ AwaitPool
  \/ \E w \in 1..MaxTasks : WorkerResumeOf(impl, w)
  \/ \E w \in 1..MaxTasks, v \in Values : ThunkResolve(w, v)
  \/ \E w \in 1..MaxTasks, isErr \in BOOLEAN :
       ThunkRejectOf(impl, FailFastCond(firstError), w,
                     Thrown(EntryOf(w), isErr))
  \/ \E w \in 1..MaxTasks : RetryWakeOf(impl, w)
  \/ Abort
  \/ TimerElapse
  \/ TimerCallback
  \/ Finish

\* the steps of functions/concurrency.ts on the same inputs
ConcurrencyNext == NextOf("concurrency")

\* the two implementations side by side on one state: a step is a step of
\* either
BothNext == \E impl \in Impls : NextOf(impl)

BothSpec == Init /\ [][BothNext]_vars

\* ---- sleep(time, signal) on its own ----

runVars == <<opts, runState, workerState, phase, timer, settledBy, outcome,
             aborted, obs, abortObs, timerCause>>

\* no call of withConcurrency under observation
RunIdle ==
  /\ isArray = TRUE
  /\ taskKeys = <<>>
  /\ concurrency = Infinity
  /\ timeout = Infinity
  /\ retry = 0
  /\ retryDelay = 0
  /\ throwOnFirstError = FALSE
  /\ ignoreErrors = FALSE
  /\ resultEntries = <<>>
  /\ errors = <<>>
  /\ taskIndex = 0
  /\ succeeded = 0
  /\ failed = 0
  /\ stopped = FALSE
  /\ firstError = [tag |-> "undefined"]
  /\ wpc = [w \in 1..MaxTasks |-> "idle"]
  /\ widx = [w \in 1..MaxTasks |-> 0]
  /\ attempt = [w \in 1..MaxTasks |-> 0]
  /\ phase = "call"
  /\ timer = "unset"
  /\ settledBy = "none"
  /\ outcome = Pending
  /\ aborted = FALSE
  /\ invoked = [e \in 1..MaxTasks |-> 0]
  /\ inflight = [e \in 1..MaxTasks |-> 0]
  /\ rejections = [e \in 1..MaxTasks |-> 0]
  /\ resolvedWith = [e \in 1..MaxTasks |-> <<>>]
  /\ claimOrder = <<>>
  /\ failOrder = <<>>
  /\ abortedAtCall = FALSE
  /\ abortedInDelay = {}
  /\ timerCause = "none"

\* the state before sleep(time, signal) is called: any delay, with or
\* without a signal, the signal possibly aborted already
SleepInit ==
  /\ RunIdle
  /\ DebounceIdle
  /\ ThrottleIdle
  /\ ScheduleIdle
  /\ sTime \in 0..MaxSleep
  /\ sHasSignal \in BOOLEAN
  /\ sAborted \in BOOLEAN
  /\ sAborted => sHasSignal
  /\ sPc = "idle"
  /\ sTimer = "none"
  /\ sListener = FALSE
  /\ sResolveCalls = 0
  /\ sPromise = "pending"
  /\ sClock = 0
  /\ sSettledAt = 0

\* resolve() of the promise: only the first call settles it
Resolve(p) == IF p = "pending" THEN "fulfilled" ELSE p

\* the listener left in place
CleanupNone(l) == l

\* cleanup(): signal?.removeEventListener('abort', onAbort)
Cleanup(l) == FALSE

\* clearTimeout(id)
ClearTimeout(t) == IF t = "pending" THEN "cleared" ELSE t

\* the promise executor: resolve at once for an aborted signal, otherwise
\* set the timer and, if a signal was supplied, add the abort listener
SleepCall ==
  /\ sPc = "idle"
  /\ sPc' = "called"
  /\ IF sHasSignal /\ sAborted
     THEN /\ sResolveCalls' = sResolveCalls + 1
          /\ sPromise' = Resolve(sPromise)
          /\ sSettledAt' = sClock
          /\ UNCHANGED <<sTimer, sListener>>
     ELSE /\ sTimer' = "pending"
          /\ sListener' = sHasSignal
          /\ UNCHANGED <<sResolveCalls, sPromise, sSettledAt>>
  /\ UNCHANGED <<runVars, debounceVars, throttleVars, scheduleVars, sTime, sHasSignal, sAborted, sClock>>

\* one millisecond passes since the call; a due timer fires before the next
SleepTick ==
  /\ sPc = "called"
  /\ sClock <= MaxSleep
  /\ ~(sTimer = "pending" /\ sClock >= sTime)
  /\ sClock' = sClock + 1
  /\ UNCHANGED <<runVars, debounceVars, throttleVars, scheduleVars, sTime, sHasSignal, sAborted, sPc, sTimer,
                 sListener, sResolveCalls, sPromise, sSettledAt>>

\* the setTimeout callback: cleanup(); resolve()
SleepTimerFire ==
  /\ sTimer = "pending"
  /\ sClock >= sTime
  /\ sTimer' = "fired"
  /\ sListener' = Cleanup(sListener)
  /\ sResolveCalls' = sResolveCalls + 1
  /\ sPromise' = Resolve(sPromise)
  /\ sSettledAt' = IF sPromise = "pending" THEN sClock ELSE sSettledAt
  /\ UNCHANGED <<runVars, debounceVars, throttleVars, scheduleVars, sTime, sHasSignal, sAborted, sPc, sClock>>

\* the signal aborts; onAbort runs if it is still listening:
\* clearTimeout(id); cleanup(); resolve()
SleepSignalAbort ==
  /\ sHasSignal
  /\ ~sAborted
  /\ sAborted' = TRUE
  /\ IF sListener
     THEN /\ sTimer' = ClearTimeout(sTimer)
          /\ sListener' = Cleanup(sListener)
          /\ sResolveCalls' = sResolveCalls + 1
          /\ sPromise' = Resolve(sPromise)
          /\ sSettledAt' = IF sPromise = "pending" THEN sClock ELSE sSettledAt
     ELSE UNCHANGED <<sTimer, sListener, sResolveCalls, sPromise, sSettledAt>>
  /\ UNCHANGED <<runVars, debounceVars, throttleVars, scheduleVars, sTime, sHasSignal, sPc, sClock>>

SleepNext ==
  \/ SleepCall
  \/ SleepTick
  \/ SleepTimerFire
  \/ SleepSignalAbort

SleepSpec == SleepInit /\ [][SleepNext]_vars

\* ---- debounce(function_, wait, { immediate }) ----

\* the arguments the debounced, throttled functions are called with
Args == {"x", "y"}

\* how long the clocks of the timer utilities run
MaxClock == (MaxCalls + 1) * (MaxWait + 1)

\* the state after debounce(function_, wait, options) returned
DebounceInit ==
  /\ RunIdle
  /\ SleepIdle
  /\ ThrottleIdle
  /\ ScheduleIdle
  /\ dWait \in 0..MaxWait
  /\ dImmediate \in BOOLEAN
  /\ dTimeoutId = FALSE
  /\ dLastArgs = "undefined"
  /\ dTimerPending = FALSE
  /\ dDue = 0
  /\ dClock = 0
  /\ dCalls = 0
  /\ dLastCallAt = 0
  /\ dLastCallArg = "undefined"
  /\ dCallsSince = 0
  /\ dInvocations = <<>>

\* a timer that is due as soon as it is set
SetTimeoutDueNow(now, ms) == now

\* setTimeout(callback, ms) called at `now`: the time the callback is due
SetTimeoutDue(now, ms) == now + ms

\* get isPending() { return timeoutId !== undefined }
DebounceIsPending == dTimeoutId

\* run(): function_.apply(lastContext, lastArgs), observed with the time,
\* the arguments passed, and the latest call of the debounced function
Run(args, callAt, callArg, since) ==
  [at |-> dClock, args |-> args, lastCallAt |-> callAt,
   lastCallArg |-> callArg, callsSince |-> since]

\* the debounced function called with argument a (lines 186-203): store the
\* arguments, run at once when immediate and no timeoutId, clear the timer
\* of the previous call and set a new one
Debounced(a) ==
  /\ dCalls < MaxCalls
  /\ LET leadingRun == ~dTimeoutId /\ dImmediate
     IN /\ dInvocations' =
             IF leadingRun
             THEN Append(dInvocations, Run(a, dClock, a, dCallsSince + 1))
             ELSE dInvocations
        /\ dLastArgs' = IF leadingRun THEN "undefined" ELSE a
        /\ dCallsSince' = IF leadingRun THEN 0 ELSE dCallsSince + 1
  /\ dTimeoutId' = TRUE
  /\ dTimerPending' = TRUE
  /\ dDue' = SetTimeoutDue(dClock, dWait)
  /\ dCalls' = dCalls + 1
  /\ dLastCallAt' = dClock
  /\ dLastCallArg' = a
  /\ UNCHANGED <<runVars, sleepVars, throttleVars, scheduleVars, dWait,
                 dImmediate, dClock>>

\* the timer set at line 201 fires: run() (lines 179-184); timeoutId keeps
\* the id of the timer that fired
DebounceTimerFire ==
  /\ dTimerPending
  /\ dClock >= dDue
  /\ dTimerPending' = FALSE
  /\ dInvocations' =
       Append(dInvocations,
              Run(dLastArgs, dLastCallAt, dLastCallArg, dCallsSince))
  /\ dLastArgs' = "undefined"
  /\ dCallsSince' = 0
  /\ UNCHANGED <<runVars, sleepVars, throttleVars, scheduleVars, dWait,
                 dImmediate, dTimeoutId, dDue, dClock, dCalls, dLastCallAt,
                 dLastCallArg>>

\* one millisecond passes; a due timer fires before the next
DebounceTick ==
  /\ dClock < MaxClock
  /\ ~(dTimerPending /\ dClock >= dDue)
  /\ dClock' = dClock + 1
  /\ UNCHANGED <<runVars, sleepVars, throttleVars, scheduleVars, dWait,
                 dImmediate, dTimeoutId, dLastArgs, dTimerPending, dDue,
                 dCalls, dLastCallAt, dLastCallArg, dCallsSince,
                 dInvocations>>

DebounceNext ==
  \/ \E a \in Args : Debounced(a)
  \/ DebounceTimerFire
  \/ DebounceTick

DebounceSpec == DebounceInit /\ [][DebounceNext]_vars

\* ---- throttle(function_, wait, { leading, trailing }) ----

\* the state after throttle(function_, wait, options) returned; Date.now()
\* is a positive number
ThrottleInit ==
  /\ RunIdle
  /\ SleepIdle
  /\ DebounceIdle
  /\ ScheduleIdle
  /\ tWait \in 0..MaxWait
  /\ tLeading \in BOOLEAN
  /\ tTrailing \in BOOLEAN
  /\ tTimeoutId = FALSE
  /\ tLastArgs = "undefined"
  /\ tLastCallTime = 0
  /\ tTimers = <<>>
  /\ tNow = 1
  /\ tCalls = 0
  /\ tInvokedAt = <<>>

\* lastCallTime ? now - lastCallTime : Number.POSITIVE_INFINITY
TimeSinceLastCall(now) ==
  IF tLastCallTime # 0 THEN now - tLastCallTime ELSE Infinity

\* get isPending() { return timeoutId !== undefined }
ThrottleIsPending == tTimeoutId

\* the sequence q without its i-th element
RemoveAt(q, i) ==
  [j \in 1..(Len(q) - 1) |-> IF j < i THEN q[j] ELSE q[j + 1]]

\* the timer the event loop runs next: the earliest due, the oldest of these
NextTimer ==
  CHOOSE i \in DOMAIN tTimers :
    \A j \in DOMAIN tTimers :
      tTimers[i] < tTimers[j] \/ (tTimers[i] = tTimers[j] /\ i <= j)

\* the throttled function called with argument a (lines 307-330); invoke()
\* (293-298) when the leading edge is taken
Throttled(a) ==
  /\ tCalls < MaxCalls
  /\ tCalls' = tCalls + 1
  /\ LET now == tNow
         timeSinceLastCall == TimeSinceLastCall(now)
     IN IF timeSinceLastCall >= tWait
        THEN IF tLeading
             THEN /\ tLastCallTime' = now
                  /\ tInvokedAt' = Append(tInvokedAt, now)
                  /\ tLastArgs' = "undefined"
                  /\ UNCHANGED <<tTimeoutId, tTimers>>
             ELSE /\ tLastArgs' = a
                  /\ tTimeoutId' = TRUE
                  /\ tTimers' = Append(tTimers, SetTimeoutDue(now, tWait))
                  /\ UNCHANGED <<tLastCallTime, tInvokedAt>>
        ELSE IF ~tTimeoutId /\ tTrailing
             THEN /\ tLastArgs' = a
                  /\ tTimeoutId' = TRUE
                  /\ tTimers' =
                       Append(tTimers,
                              SetTimeoutDue(now, tWait - timeSinceLastCall))
                  /\ UNCHANGED <<tLastCallTime, tInvokedAt>>
             ELSE /\ tLastArgs' = a
                  /\ UNCHANGED <<tTimeoutId, tTimers, tLastCallTime,
                                 tInvokedAt>>
  /\ UNCHANGED <<runVars, sleepVars, debounceVars, scheduleVars, tWait,
                 tLeading, tTrailing, tNow>>

\* a timer fires: later() (lines 300-305), with invoke() when trailing and
\* arguments are stored
Later ==
  /\ tTimers # <<>>
  /\ tTimers[NextTimer] <= tNow
  /\ tTimers' = RemoveAt(tTimers, NextTimer)
  /\ tTimeoutId' = FALSE
  /\ IF tTrailing /\ tLastArgs # "undefined"
     THEN /\ tLastCallTime' = tNow
          /\ tInvokedAt' = Append(tInvokedAt, tNow)
          /\ tLastArgs' = "undefined"
     ELSE UNCHANGED <<tLastCallTime, tInvokedAt, tLastArgs>>
  /\ UNCHANGED <<runVars, sleepVars, debounceVars, scheduleVars, tWait,
                 tLeading, tTrailing, tNow, tCalls>>

\* one millisecond passes; the timers that are due fire before the next
ThrottleTick ==
  /\ tNow < MaxClock
  /\ \A i \in DOMAIN tTimers : tTimers[i] > tNow
  /\ tNow' = tNow + 1
  /\ UNCHANGED <<runVars, sleepVars, debounceVars, scheduleVars, tWait,
                 tLeading, tTrailing, tTimeoutId, tLastArgs, tLastCallTime,
                 tTimers, tCalls, tInvokedAt>>

ThrottleNext ==
  \/ \E a \in Args : Throttled(a)
  \/ Later
  \/ ThrottleTick

ThrottleSpec == ThrottleInit /\ [][ThrottleNext]_vars

\* ---- schedule(task, { retry, delay }) ----

\* the state before the tasks are scheduled: any retry and delay per task
ScheduleInit ==
  /\ RunIdle
  /\ SleepIdle
  /\ DebounceIdle
  /\ ThrottleIdle
  /\ schRetry \in [1..MaxSchedules -> 0..MaxRetry]
  /\ schDelay \in [1..MaxSchedules -> {0, ScheduleDelayMs}]
  /\ schPc = [i \in 1..MaxSchedules |-> "idle"]
  /\ schTriesLeft = [i \in 1..MaxSchedules |-> 0]
  /\ schDue = [i \in 1..MaxSchedules |-> 0]
  /\ schClock = 0
  /\ schRuns = [i \in 1..MaxSchedules |-> 0]
  /\ schFailures = [i \in 1..MaxSchedules |-> 0]
  /\ schFailedAt = [i \in 1..MaxSchedules |-> 0]
  /\ schSucceeded = [i \in 1..MaxSchedules |-> FALSE]

\* how long the clock of the scheduled tasks runs: every retry can wait
\* its delay
ScheduleMaxClock == (MaxRetry + 1) * ScheduleDelayMs

\* the retry made with the tries left of the attempt that failed
NextTriesLeftSame(t) == t

\* attempt(triesLeft - 1)
NextTriesLeft(t) == t - 1

\* schedule(task, options) for task i (lines 44-76): only
\* setTimeout(() => attempt(retry), 0)
Schedule(i) ==
  /\ schPc[i] = "idle"
  /\ schPc' = [schPc EXCEPT ![i] = "queued"]
  /\ schTriesLeft' = [schTriesLeft EXCEPT ![i] = schRetry[i]]
  /\ schDue' = [schDue EXCEPT ![i] = SetTimeoutDue(schClock, 0)]
  /\ UNCHANGED <<runVars, sleepVars, debounceVars, throttleVars, schRetry,
                 schDelay, schClock, schRuns, schFailures, schFailedAt,
                 schSucceeded>>

\* the timer of task i fires: attempt(triesLeft) runs up to await task()
\* (lines 49-51)
Attempt(i) ==
  /\ schPc[i] = "queued"
  /\ schClock >= schDue[i]
  /\ schRuns[i] <= MaxRetry + 1
  /\ schPc' = [schPc EXCEPT ![i] = "running"]
  /\ schRuns' = [schRuns EXCEPT ![i] = @ + 1]
  /\ UNCHANGED <<runVars, sleepVars, debounceVars, throttleVars, schRetry,
                 schDelay, schTriesLeft, schDue, schClock, schFailures,
                 schFailedAt, schSucceeded>>

\* the task of i returned or its promise resolved (lines 51-55)
TaskResolve(i) ==
  /\ schPc[i] = "running"
  /\ schPc' = [schPc EXCEPT ![i] = "done"]
  /\ schSucceeded' = [schSucceeded EXCEPT ![i] = TRUE]
  /\ UNCHANGED <<runVars, sleepVars, debounceVars, throttleVars, schRetry,
                 schDelay, schTriesLeft, schDue, schClock, schRuns,
                 schFailures, schFailedAt>>

\* the task of i threw or its promise rejected (lines 56-71): retry after
\* the delay when tries are left
TaskReject(i) ==
  /\ schPc[i] = "running"
  /\ schFailures' = [schFailures EXCEPT ![i] = @ + 1]
  /\ schFailedAt' = [schFailedAt EXCEPT ![i] = schClock]
  /\ IF schTriesLeft[i] > 0
     THEN /\ schPc' = [schPc EXCEPT ![i] = "queued"]
          /\ schTriesLeft' = [schTriesLeft EXCEPT ![i] = NextTriesLeft(@)]
          /\ schDue' =
               [schDue EXCEPT ![i] = SetTimeoutDue(schClock, schDelay[i])]
     ELSE /\ schPc' = [schPc EXCEPT ![i] = "failed"]
          /\ UNCHANGED <<schTriesLeft, schDue>>
  /\ UNCHANGED <<runVars, sleepVars, debounceVars, throttleVars, schRetry,
                 schDelay, schClock, schRuns, schSucceeded>>

\* one millisecond passes; the timers that are due fire before the next
ScheduleTick ==
  /\ schClock < ScheduleMaxClock
  /\ \A i \in 1..MaxSchedules :
       schPc[i] = "queued" => schDue[i] > schClock
  /\ schClock' = schClock + 1
  /\ UNCHANGED <<runVars, sleepVars, debounceVars, throttleVars, schRetry,
                 schDelay, schPc, schTriesLeft, schDue, schRuns, schFailures,
                 schFailedAt, schSucceeded>>

ScheduleNext ==
  \/ \E i \in 1..MaxSchedules : Schedule(i)
  \/ \E i \in 1..MaxSchedules : Attempt(i)
  \/ \E i \in 1..MaxSchedules : TaskResolve(i)
  \/ \E i \in 1..MaxSchedules : TaskReject(i)
  \/ ScheduleTick

ScheduleSpec == ScheduleInit /\ [][ScheduleNext]_vars

\* ---- properties ----

RECURSIVE SumTo(_, _)
SumTo(f, k) == IF k = 0 THEN 0 ELSE f[k] + SumTo(f, k - 1)

\* thunk invocations started and not yet settled, over all entries
Running == SumTo(inflight, MaxTasks)

\* workers that hold an entry
Busy == {w \in Workers : wpc[w] \in {"running", "sleeping", "returned"}}

\* number of completed pairs / captured failures of entry e
PairsOf(e) ==
  Cardinality({j \in DOMAIN resultEntries :
                 resultEntries[j][1] = taskKeys[e]})
ErrorsOf(e) ==
  Cardinality({j \in DOMAIN errors : errors[j].text = taskKeys[e]})

\* C1: at every moment the number of thunk invocations started and not yet
\* settled is at most min(concurrency, n), and no entry is ever handed to
\* two workers (no entry is claimed twice, busy workers hold distinct entries)
C1_ConcurrencyBound ==
  /\ Running <= Min(concurrency, N)
  /\ \A i, j \in DOMAIN claimOrder : i # j => claimOrder[i] # claimOrder[j]
  /\ \A w, v \in Busy : w # v => widx[w] # widx[v]

\* C1 witness: the limit binds (fewer workers than entries), the single
\* worker has moved on to the last entry and its thunk is in flight
C1_Witness ==
  /\ concurrency < N
  /\ Running = concurrency
  /\ Len(claimOrder) = N
  /\ succeeded + failed >= 1

\* C2 as stated: whenever the run resolves with a result object,
\* succeeded + failed equals the number of submitted entries
C2_Original ==
  outcome.kind = "result" => outcome.succeeded + outcome.failed = N

\* C2 amended: whenever the run resolves with a result object and the
\* cancellation signal has not been aborted, succeeded + failed equals the
\* number of submitted entries
C2_Conservation ==
  (outcome.kind = "result" /\ ~aborted) =>
    outcome.succeeded + outcome.failed = N

\* C2 witness: a run of several entries resolved with successes and
\* failures and no cancellation
C2_Witness ==
  /\ outcome.kind = "result"
  /\ ~aborted
  /\ N >= 2
  /\ outcome.succeeded >= 1
  /\ outcome.failed >= 1

\* C3: each entry's thunk is invoked at most retry + 1 times, in every
\* reachable state, stopped or not
C3_RetryBound == \A e \in 1..N : invoked[e] <= retry + 1

\* C3 witness: an entry has used all its retry + 1 attempts, retry >= 1
C3_Witness ==
  /\ retry >= 1
  /\ \E e \in 1..N : invoked[e] = retry + 1 /\ rejections[e] = retry + 1

\* C4: in a run that was not stopped, once the pool has settled an entry
\* that never succeeded was invoked exactly retry + 1 times, failed every
\* time and has exactly one error; an entry that succeeded was invoked
\* exactly once more than it failed, at most retry + 1 times, and has no
\* error; failed counts the former
C4_ExactAttempts ==
  (settledBy = "main" /\ ~stopped) =>
    /\ \A e \in 1..N :
         IF resolvedWith[e] = <<>>
         THEN /\ invoked[e] = retry + 1
              /\ rejections[e] = retry + 1
              /\ ErrorsOf(e) = 1
         ELSE /\ invoked[e] = rejections[e] + 1
              /\ invoked[e] <= retry + 1
              /\ ErrorsOf(e) = 0
    /\ failed = Cardinality({e \in 1..N : resolvedWith[e] = <<>>})
    /\ Len(errors) = failed

\* C4 witness: an unstopped run has settled with retry >= 1, one entry that
\* failed every attempt and one that succeeded on its last permitted attempt
C4_Witness ==
  /\ settledBy = "main"
  /\ ~stopped
  /\ retry >= 1
  /\ \E e \in 1..N : resolvedWith[e] = <<>> /\ invoked[e] = retry + 1
  /\ \E e \in 1..N : resolvedWith[e] # <<>> /\ invoked[e] = retry + 1

\* C5: each entry has at most one final disposition: at most one completed
\* pair, at most one captured failure, never both
C5_OneDisposition ==
  \A e \in 1..N : PairsOf(e) + ErrorsOf(e) <= 1

\* C5 witness: one entry has a completed pair and another a captured failure
C5_Witness ==
  \E e, f \in 1..N : PairsOf(e) = 1 /\ ErrorsOf(f) = 1

\* the values of the entries 1..k that resolved, in submission order
RECURSIVE ExpectedList(_)
ExpectedList(k) ==
  IF k = 0 THEN <<>> ELSE ExpectedList(k - 1) \o resolvedWith[k]

\* the entries that resolved
Succeeded == {e \in 1..N : resolvedWith[e] # <<>>}

\* C6: for list input, when the run resolves with a result, results is the
\* sequence of the values of the entries that succeeded, in submission
\* order whatever the completion order, and its length equals succeeded
C6_ListOrder ==
  (isArray /\ outcome.kind = "result") =>
    /\ outcome.results = ExpectedList(N)
    /\ Len(outcome.results) = outcome.succeeded

\* C6 witness: a list run resolved after its two entries completed in the
\* reverse of the submission order, with different values
C6_Witness ==
  /\ isArray
  /\ outcome.kind = "result"
  /\ Len(resultEntries) = 2
  /\ Number(resultEntries[1][1]) > Number(resultEntries[2][1])
  /\ resultEntries[1][2] # resultEntries[2][2]

\* C7: for mapping input, when the run resolves with a result, the keys of
\* results are exactly the keys of the entries that succeeded, each mapped
\* to the value its thunk resolved with; keys of failed entries are absent
C7_MappingKeys ==
  (~isArray /\ outcome.kind = "result") =>
    /\ DOMAIN outcome.results = {taskKeys[e] : e \in Succeeded}
    /\ \A e \in Succeeded : outcome.results[taskKeys[e]] = resolvedWith[e][1]
    /\ \A e \in 1..N : ErrorsOf(e) >= 1 =>
         taskKeys[e] \notin DOMAIN outcome.results

\* C7 witness: a mapping run resolved with one key that succeeded and one
\* that failed
C7_Witness ==
  /\ ~isArray
  /\ outcome.kind = "result"
  /\ \E e, f \in 1..N :
       /\ taskKeys[e] \in DOMAIN outcome.results
       /\ ErrorsOf(f) = 1

\* fail-fast is in force
FailFastActive == throwOnFirstError /\ ~ignoreErrors

\* the normalized error of entry e's failure
ErrorOfEntry(e) == [isError |-> TRUE, text |-> taskKeys[e]]

\* the timeout error of the one finite timeout of the model
TimedOut ==
  Rejected([isError |-> TRUE, text |-> "Concurrence timed out after 50ms"])

\* C8 as stated: with fail-fast in force, once an entry has failed its final
\* attempt the settled run is a rejection with the normalized error of the
\* first such entry
C8_Original ==
  (FailFastActive /\ failOrder # <<>> /\ outcome.kind # "pending") =>
    outcome = Rejected(ErrorOfEntry(failOrder[1]))

\* C8 amended: with fail-fast in force, the first entry to fail its final
\* attempt is captured and never replaced by a later terminal failure; the
\* run returns no result object; it rejects with that entry's normalized
\* error when the worker pool settles first, and with the timeout error when
\* the timeout promise settles first
C8_FailFast ==
  (FailFastActive /\ failOrder # <<>>) =>
    /\ firstError = [tag |-> "error", error |-> ErrorOfEntry(failOrder[1])]
    /\ outcome.kind # "result"
    /\ outcome.kind = "rejected" =>
         outcome = IF settledBy = "timer" THEN TimedOut
                   ELSE Rejected(ErrorOfEntry(failOrder[1]))

\* C8 witness: the run rejected with the first failing entry's error after
\* a second entry had failed its final attempt too
C8_Witness ==
  /\ FailFastActive
  /\ Len(failOrder) = 2
  /\ outcome = Rejected(ErrorOfEntry(failOrder[1]))

\* C9 as stated: with throwOnFirstError and ignoreErrors both set the
\* settled run is a result object and every entry was attempted
C9_Original ==
  (throwOnFirstError /\ ignoreErrors /\ outcome.kind # "pending") =>
    /\ outcome.kind = "result"
    /\ \A e \in 1..N : invoked[e] >= 1

\* C9 amended: with both options set no task failure is captured for
\* fail-fast or sets stopped (only the timeout callback or a worker seeing
\* the aborted signal does), the run never rejects with a task error (only
\* with the timeout error when the timeout promise settles first), and when
\* the pool settles first and the signal was not aborted the run resolves
\* with a result object, every entry attempted, the terminal failures
\* recorded in errors/failed
C9_IgnoreErrorsWins ==
  /\ []((throwOnFirstError /\ ignoreErrors) =>
          /\ ~Truthy(firstError)
          /\ outcome.kind = "rejected" =>
               (settledBy = "timer" /\ outcome = TimedOut)
          /\ (settledBy = "main" /\ outcome.kind # "pending") =>
               outcome.kind = "result"
          /\ (outcome.kind = "result" /\ ~aborted) =>
               /\ \A e \in 1..N : invoked[e] >= 1
               /\ outcome.failed = Cardinality((1..N) \ Succeeded)
               /\ Len(outcome.errors) = outcome.failed
               /\ \A e \in (1..N) \ Succeeded : ErrorsOf(e) = 1)
  /\ [][(throwOnFirstError /\ ignoreErrors /\ ~stopped /\ stopped') =>
          \/ timer = "resolved" /\ timer' = "fired"
          \/ aborted]_vars

\* C9 witness: with both options set a run resolved with a failure recorded
\* first and a later entry that succeeded, stopped never set
C9_Witness ==
  /\ throwOnFirstError
  /\ ignoreErrors
  /\ outcome.kind = "result"
  /\ ~stopped
  /\ outcome.failed = 1
  /\ outcome.succeeded = 1
  /\ ErrorsOf(1) = 1

\* C10: with a finite timeout, when the timeout promise settles before the
\* worker pool the settled run is the rejection with the timeout error
\* naming the duration, never a result object or a task error, whatever
\* throwOnFirstError and ignoreErrors are and whether or not a fail-fast
\* error was captured
C10_TimeoutRejects ==
  (timeout # Infinity /\ settledBy = "timer" /\ outcome.kind # "pending") =>
    outcome = TimedOut

\* C10 witness: the run rejected with the timeout error while a fail-fast
\* error was captured and another entry's attempt was still in flight
C10_Witness ==
  /\ outcome = TimedOut
  /\ FailFastActive
  /\ Truthy(firstError)
  /\ Running >= 1

\* C11 as stated: when the signal was aborted, the timeout has not elapsed
\* and no task failure was escalated by fail-fast, the settled run is a
\* result object reporting every entry that succeeded, never a rejection
C11_Original ==
  (/\ aborted
   /\ timerCause # "time"
   /\ ~(FailFastActive /\ Truthy(firstError))
   /\ outcome.kind # "pending") =>
    /\ outcome.kind = "result"
    /\ outcome.succeeded = Cardinality(Succeeded)

\* C12: a call on a non-empty input with a signal that is already aborted
\* invokes no thunk and never rejects; when it settles it is a result with
\* succeeded = 0 and failed = 0, whatever the other options are
C12_PreAborted ==
  (abortedAtCall /\ N > 0) =>
    /\ \A e \in 1..N : invoked[e] = 0
    /\ outcome.kind # "rejected"
    /\ phase = "settled" =>
         /\ outcome.kind = "result"
         /\ outcome.succeeded = 0
         /\ outcome.failed = 0
         /\ outcome.errors = <<>>

\* C12 witness: a call with an aborted signal, two entries, a finite timeout
\* and fail-fast has resolved, the timeout sleep woken by the signal
C12_Witness ==
  /\ abortedAtCall
  /\ N = 2
  /\ timeout # Infinity
  /\ timerCause = "abort"
  /\ FailFastActive
  /\ outcome.kind = "result"

\* C13: once the signal is aborted no entry not yet invoked is ever invoked
\* and no entry is claimed; the worker that takes a new index sets stopped
\* and exits, and a worker returning from its entry exits
C13_NoNewEntryAfterAbort ==
  [][aborted =>
       /\ \A e \in 1..MaxTasks : invoked[e] = 0 => invoked'[e] = 0
       /\ claimOrder' = claimOrder
       /\ (taskIndex' # taskIndex /\ taskIndex < N) => stopped'
       /\ \A w \in Workers :
            (wpc[w] = "returned" /\ wpc'[w] # "returned") =>
              wpc'[w] = "done"]_vars

\* C13 witness: the signal was aborted during the run; the pool stopped on
\* it with an entry that was never invoked although the cursor passed it
C13_Witness ==
  /\ aborted
  /\ ~abortedAtCall
  /\ stopped
  /\ timerCause = "none"
  /\ ~Truthy(firstError)
  /\ \A w \in Workers : wpc[w] = "done"
  /\ \E e, f \in 1..N : invoked[e] = 0 /\ taskIndex >= e /\ invoked[f] >= 1

\* the entries handed to workers are the first ones, in submission order
ClaimedInOrder == \A j \in DOMAIN claimOrder : claimOrder[j] = j

C15_SequentialAttempts ==
  /\ \A e \in 1..N :
       /\ inflight[e] <= 1
       /\ invoked[e] <= rejections[e] + 1
       /\ inflight[e] = 1 => invoked[e] = rejections[e] + 1
  /\ \A w \in Workers : wpc[w] = "sleeping" => inflight[EntryOf(w)] = 0

\* C15 witness: the second attempt of an entry is in flight after its first
\* attempt failed and the retry delay passed
C15_Witness ==
  /\ retryDelay > 0
  /\ \E e \in 1..N :
       invoked[e] = 2 /\ rejections[e] = 1 /\ inflight[e] = 1

C17_LocalRecovery ==
  ((~throwOnFirstError \/ ignoreErrors) /\ timeout = Infinity) =>
    /\ outcome.kind # "rejected"
    /\ Len(errors) = Len(failOrder)
    /\ \A j \in DOMAIN errors : errors[j] = ErrorOfEntry(failOrder[j])
    /\ outcome.kind = "result" => outcome.errors = errors

\* C17 witness: without timeout and with ignoreErrors a run resolved with
\* two captured failures
C17_Witness ==
  /\ ignoreErrors
  /\ throwOnFirstError
  /\ timeout = Infinity
  /\ outcome.kind = "result"
  /\ Len(outcome.errors) = 2

\* C18: for an empty input the call settles in its first step with the
\* empty result of the input's shape, no errors, zero counts and zero
\* duration; no worker, timer or thunk is ever started, whatever the options
C18_EmptyInput ==
  (N = 0 /\ phase # "call") =>
    /\ outcome = [kind |-> "result",
                  shape |-> IF isArray THEN "list" ELSE "mapping",
                  results |-> <<>>, errors |-> <<>>, succeeded |-> 0,
                  failed |-> 0, duration |-> 0]
    /\ \A w \in 1..MaxTasks : wpc[w] = "idle"
    /\ timer = "unset"
    /\ taskIndex = 0
    /\ ~stopped
    /\ \A e \in 1..MaxTasks : invoked[e] = 0

\* C18 witness: an empty mapping was given with an aborted signal and a
\* finite timeout, and the call has returned
C18_Witness ==
  /\ N = 0
  /\ ~isArray
  /\ abortedAtCall
  /\ timeout # Infinity
  /\ outcome.kind = "result"

\* C20: sleep never rejects and calls resolve at most once; it is resolved
\* immediately when the signal is already aborted, as soon as the signal
\* aborts, and once the time has elapsed, whichever comes first; once
\* resolved the abort listener is removed and no timer is left pending
C20_SleepResolves ==
  /\ sPromise \in {"pending", "fulfilled"}
  /\ sResolveCalls <= 1
  /\ sPromise = "fulfilled" <=> sResolveCalls = 1
  /\ sPromise = "fulfilled" => ~sListener /\ sTimer # "pending"
  /\ (sPc = "called" /\ sAborted) => sPromise = "fulfilled"
  /\ (sPc = "called" /\ sClock > sTime) => sPromise = "fulfilled"
  /\ (sPc = "called" /\ sPromise = "pending") =>
       sTimer = "pending" /\ sListener = sHasSignal
  /\ sPromise = "fulfilled" =>
       /\ sSettledAt <= sTime
       /\ sTimer = "fired" => sSettledAt = sTime
       /\ sTimer = "cleared" => sAborted
       /\ sTimer = "none" => sAborted /\ sSettledAt = 0

\* C20 witness: a sleep with a signal was resolved by the abort before its
\* time elapsed, and the time has passed since without the timer firing
C20_Witness ==
  /\ sPc = "called"
  /\ sPromise = "fulfilled"
  /\ sTimer = "cleared"
  /\ sSettledAt > 0
  /\ sSettledAt < sTime
  /\ sClock > sTime
  /\ sResolveCalls = 1

\* an in-flight attempt of entry e ends in this step only by the settling of
\* its thunk
FinishesNaturally(e) ==
  inflight'[e] < inflight[e] =>
    \/ rejections'[e] = rejections[e] + 1
    \/ resolvedWith'[e] # resolvedWith[e]

\* C26: with fail-fast active, once the first terminal failure has set
\* stopped, the cursor no longer advances, no entry is claimed and no thunk
\* is invoked again; attempts in flight end only by settling
C26_FailFastStops ==
  [][(FailFastActive /\ Truthy(firstError)) =>
       /\ stopped /\ stopped'
       /\ taskIndex' = taskIndex
       /\ claimOrder' = claimOrder
       /\ invoked' = invoked
       /\ \A e \in 1..N : FinishesNaturally(e)]_vars

\* C26 witness: fail-fast stopped the pool; an entry that was in flight then
\* failed its first attempt and was not retried although a retry was left
C26_Witness ==
  /\ FailFastActive
  /\ Truthy(firstError)
  /\ stopped
  /\ ~aborted
  /\ timerCause = "none"
  /\ retry = 1
  /\ \A w \in Workers : wpc[w] = "done"
  /\ \E e \in 1..N : invoked[e] = 1 /\ rejections[e] = 1

\* C27 as stated: once stopped is set, the completed pairs, the succeeded
\* count, the captured failures and the failed count no longer change
C27_Original ==
  [][stopped =>
       UNCHANGED <<resultEntries, succeeded, errors, failed>>]_vars

\* C28 as stated, for a run without timeout: the thunk of an entry that was
\* in its retry delay when the signal aborted is not invoked again
C28_Original ==
  [][timeout = Infinity =>
       \A e \in abortedInDelay : invoked'[e] = invoked[e]]_vars

\* C29: after the callback of the timeout sleep has run, stopped is true and
\* stays true, the cursor no longer advances, no entry is claimed and no
\* thunk is invoked; attempts in flight end only by settling, and a worker
\* that resumes after runTask exits
C29_TimeoutStops ==
  [][/\ timer' = "fired" => stopped'
     /\ timer = "fired" =>
          /\ stopped
          /\ timer' = "fired"
          /\ taskIndex' = taskIndex
          /\ claimOrder' = claimOrder
          /\ invoked' = invoked
          /\ \A e \in 1..N : FinishesNaturally(e)
          /\ \A w \in Workers :
               (wpc[w] = "returned" /\ wpc'[w] # "returned") =>
                 wpc'[w] = "done"]_vars

\* C29 witness: the timeout elapsed while the first entry was in flight; its
\* attempt failed afterwards and was not retried, its worker exited and the
\* second entry was never claimed
C29_Witness ==
  /\ timer = "fired"
  /\ timerCause = "time"
  /\ settledBy = "timer"
  /\ retry = 1
  /\ N = 2
  /\ invoked[1] = 1
  /\ rejections[1] = 1
  /\ invoked[2] = 0
  /\ \A w \in Workers : wpc[w] = "done"

\* C30 as stated: the timeout promise wins the race only while fewer
\* entries than the total have reached a final disposition
C30_Original ==
  [][(settledBy = "none" /\ settledBy' = "timer") =>
       succeeded + failed < N]_vars

\* C21: without immediate, the wrapped function is invoked only when wait
\* ms have passed since the latest call, with that call's arguments, and
\* once for the calls made since the invocation before; once more than wait
\* ms have passed since the latest call it has been answered
C21_TrailingDebounce ==
  ~dImmediate =>
    /\ \A j \in DOMAIN dInvocations :
         /\ dInvocations[j].at = dInvocations[j].lastCallAt + dWait
         /\ dInvocations[j].args = dInvocations[j].lastCallArg
         /\ dInvocations[j].callsSince >= 1
    /\ (dCalls > 0 /\ dClock > dLastCallAt + dWait) => dCallsSince = 0
    /\ ~dTimerPending => dCallsSince = 0

\* C21 witness: a burst of three calls spread over time was answered by one
\* invocation, wait ms after the last call and with its argument
C21_Witness ==
  /\ ~dImmediate
  /\ dWait = MaxWait
  /\ dCalls = 3
  /\ Len(dInvocations) = 1
  /\ dInvocations[1].callsSince = 3
  /\ dInvocations[1].args = "y"
  /\ dInvocations[1].lastCallAt >= 2
  /\ dClock > dInvocations[1].at

\* C22 as stated: isPending is true exactly when the debounce timer is
\* active
C22_Original == DebounceIsPending <=> dTimerPending

\* C23 as stated, the isolated call: with immediate, after a single call of
\* the debounced function the wrapped function has been invoked at most
\* once
C23_Original ==
  (dImmediate /\ dCalls = 1) => Len(dInvocations) <= 1

\* C24 as stated: any two invocations of the wrapped function of a
\* throttled function are at least wait ms apart
C24_Original ==
  \A i, j \in DOMAIN tInvokedAt :
    i < j => tInvokedAt[j] - tInvokedAt[i] >= tWait

\* C25: the schedule call itself does not run the task; each task runs at
\* most retry + 1 times; a run after the first starts only when the run
\* before failed and delay ms have passed since; no run follows a success;
\* a run of one task leaves the run counts of the others alone
C25_ScheduleAttempts ==
  /\ [](\A i \in 1..MaxSchedules :
          /\ schRuns[i] <= schRetry[i] + 1
          /\ schPc[i] = "idle" => schRuns[i] = 0)
  /\ [][\A i \in 1..MaxSchedules :
          /\ schPc[i] = "idle" => schRuns'[i] = schRuns[i]
          /\ schSucceeded[i] => schRuns'[i] = schRuns[i]
          /\ schRuns'[i] # schRuns[i] =>
               /\ schRuns'[i] = schRuns[i] + 1
               /\ schFailures[i] = schRuns[i]
               /\ schRuns[i] > 0 =>
                    schClock >= schFailedAt[i] + schDelay[i]
               /\ \A k \in 1..MaxSchedules \ {i} :
                    schRuns'[k] = schRuns[k]]_vars

\* C25 witness: one task with a retry and a delay failed, was retried and
\* succeeded on its second run while another without retry failed once
C25_Witness ==
  /\ schRetry[1] = 1
  /\ schDelay[1] > 0
  /\ schRuns[1] = 2
  /\ schSucceeded[1]
  /\ schRetry[2] = 0
  /\ schRuns[2] = 1
  /\ schPc[2] = "failed"

\* ---- the settling of the run against attempts in flight ----

\* C31: with fail-fast active and no timeout, when the run has rejected the
\* error is the captured task error, no attempt of any entry is in flight
\* and every worker of the pool has returned
C31_FailFastAfterPool ==
  (FailFastActive /\ timeout = Infinity /\ outcome.kind = "rejected") =>
    /\ Truthy(firstError)
    /\ outcome = Rejected(firstError.error)
    /\ \A e \in 1..N : inflight[e] = 0
    /\ \A w \in Workers : wpc[w] = "done"

\* C31 witness: two entries ran side by side without retry, the first one's
\* failure was captured while the second was in flight, the second failed
\* after it, and the run rejected with the first failure
C31_Witness ==
  /\ FailFastActive
  /\ timeout = Infinity
  /\ N = 2
  /\ concurrency = 2
  /\ retry = 0
  /\ failOrder = <<1, 2>>
  /\ outcome = Rejected(ErrorOfEntry(1))

\* C32: with a finite timeout, a signal that aborts while attempts are in
\* flight and before the timeout has elapsed decides the race for the
\* timeout promise (at the abort when the timeout sleep is armed, at the
\* await when the abort came during the start of the pool); the race stays
\* decided, and the run it settles is rejected with the timeout error
C32_AbortInFlightRejects ==
  /\ []((settledBy = "timer" /\ phase = "settled") => outcome = TimedOut)
  /\ [][/\ (/\ timeout # Infinity
            /\ ~aborted
            /\ aborted'
            /\ timer = "armed"
            /\ Running > 0) => settledBy' = "timer"
        /\ (/\ timeout # Infinity
            /\ aborted
            /\ ~abortedAtCall
            /\ phase = "start"
            /\ phase' = "await"
            /\ Running > 0) => settledBy' = "timer"
        /\ settledBy = "timer" => settledBy' = "timer"]_vars

\* C32 witness: without retry, the signal aborted during the run, the
\* timeout sleep was resolved by the signal and not by time, and the run
\* rejected with the timeout error with an attempt still in flight
C32_Witness ==
  /\ timeout # Infinity
  /\ retry = 0
  /\ aborted
  /\ ~abortedAtCall
  /\ timerCause = "abort"
  /\ Running > 0
  /\ outcome = TimedOut

\* the worker slots whose worker() call has been made
Started == {w \in 1..MaxTasks : wpc[w] # "idle"}

\* C33 as stated: min(concurrency, n) workers are started; while stopped is
\* false and unclaimed entries remain no worker is idle or terminated; a
\* worker that finishes an entry while stopped is false and unclaimed
\* entries remain claims the next one in the step in which it resumes; the
\* pool started without cancellation runs min(concurrency, n) thunks at once
C33_Original ==
  /\ []((phase \in {"await", "settled"} /\ N > 0) =>
          /\ Cardinality(Started) = Min(concurrency, N)
          /\ (~stopped /\ taskIndex < N) =>
               \A w \in Workers : wpc[w] \notin {"idle", "done"})
  /\ [][/\ (phase = "start" /\ phase' = "await" /\ ~aborted) =>
             Running = Min(concurrency, N)
        /\ \A w \in Workers :
             (/\ wpc[w] = "returned"
              /\ wpc'[w] # "returned"
              /\ ~stopped
              /\ taskIndex < N) =>
               /\ wpc'[w] = "running"
               /\ claimOrder' = Append(claimOrder, taskIndex + 1)
               /\ invoked'[taskIndex + 1] = invoked[taskIndex + 1] + 1]_vars

\* C33 amended: the same, the worker that finishes an entry claiming the
\* next one only when the signal is not aborted
C33_WorkConserving ==
  /\ []((phase \in {"await", "settled"} /\ N > 0) =>
          /\ Cardinality(Started) = Min(concurrency, N)
          /\ (~stopped /\ taskIndex < N) =>
               \A w \in Workers : wpc[w] \notin {"idle", "done"})
  /\ [][/\ (phase = "start" /\ phase' = "await" /\ ~aborted) =>
             Running = Min(concurrency, N)
        /\ \A w \in Workers :
             (/\ wpc[w] = "returned"
              /\ wpc'[w] # "returned"
              /\ ~stopped
              /\ ~aborted
              /\ taskIndex < N) =>
               /\ wpc'[w] = "running"
               /\ claimOrder' = Append(claimOrder, taskIndex + 1)
               /\ invoked'[taskIndex + 1] = invoked[taskIndex + 1] + 1]_vars

\* C33 witness: one worker for two entries finished the first and claimed
\* the second, whose thunk is running, the signal not aborted
C33_Witness ==
  /\ N = 2
  /\ concurrency = 1
  /\ ~aborted
  /\ ~stopped
  /\ claimOrder = <<1, 2>>
  /\ resolvedWith[1] # <<>>
  /\ inflight[2] = 1

\* C34: with no timeout and a signal aborted during the run, the settled
\* run has no attempt in flight; every entry that resolved is counted in
\* succeeded and has its pair, and a run that resolved reports them; an
\* attempt that resolves after the abort is recorded like any other
C34_AbortWaitsInFlight ==
  /\ []((timeout = Infinity /\ aborted /\ ~abortedAtCall
         /\ phase = "settled") =>
          /\ \A e \in 1..N : inflight[e] = 0
          /\ succeeded = Cardinality(Succeeded)
          /\ \A e \in Succeeded : PairsOf(e) = 1
          /\ outcome.kind = "result" =>
               /\ outcome.succeeded = Cardinality(Succeeded)
               /\ isArray => outcome.results = ExpectedList(N)
               /\ ~isArray =>
                    \A e \in Succeeded :
                      /\ taskKeys[e] \in DOMAIN outcome.results
                      /\ outcome.results[taskKeys[e]] = resolvedWith[e][1])
  /\ [][\A e \in 1..N :
          (aborted /\ resolvedWith'[e] # resolvedWith[e]) =>
            /\ succeeded' = succeeded + 1
            /\ resultEntries' =
                 Append(resultEntries, <<taskKeys[e], resolvedWith'[e][1]>>)]_vars

\* C34 witness: the signal aborted while the pool was starting, the first
\* entry's thunk already invoked; the second worker claimed nothing, the
\* first entry resolved afterwards and the run resolved counting it
C34_Witness ==
  /\ timeout = Infinity
  /\ aborted
  /\ ~abortedAtCall
  /\ N = 2
  /\ concurrency = 2
  /\ invoked[2] = 0
  /\ outcome.kind = "result"
  /\ outcome.succeeded = 1

\* ---- the run state, the options and the two implementations ----

\* C37: in every state succeeded is the number of completed pairs and
\* failed the number of captured failures, the captured failures are those
\* of the entries that failed terminally, in the order in which they did,
\* and succeeded + failed is at most the number of entries claimed
C37_CountsMatch ==
  /\ succeeded = Len(resultEntries)
  /\ failed = Len(errors)
  /\ Len(errors) = Len(failOrder)
  /\ \A j \in DOMAIN errors : errors[j] = ErrorOfEntry(failOrder[j])
  /\ succeeded + failed <= Len(claimOrder)

\* C37 witness: two entries were claimed in order, the second failed
\* terminally before the first, and both failures are captured
C37_Witness ==
  /\ claimOrder = <<1, 2>>
  /\ failOrder = <<2, 1>>
  /\ failed = 2
  /\ phase = "settled"

\* C38: with throwOnFirstError false, every step of a run, taken with
\* either value of ignoreErrors, is the same step for the other value; no
\* error is captured as the first one, and the run never rejects but by the
\* timeout
C38_IgnoreErrorsInert ==
  /\ [](~throwOnFirstError =>
          /\ ~Truthy(firstError)
          /\ outcome.kind = "rejected" => outcome = TimedOut)
  /\ [][~throwOnFirstError =>
          \A w \in Workers, isErr \in BOOLEAN :
            wpc[w] = "running" =>
              (ThunkRejectOf("promise", FailFastCondWith(TRUE, firstError),
                             w, Thrown(EntryOf(w), isErr))
               <=>
               ThunkRejectOf("promise", FailFastCondWith(FALSE, firstError),
                             w, Thrown(EntryOf(w), isErr)))]_vars

\* C38 witness: a run with throwOnFirstError false and ignoreErrors false
\* captured the terminal failure of its first entry, went on to the second
\* and resolved
C38_Witness ==
  /\ ~throwOnFirstError
  /\ ~ignoreErrors
  /\ N = 2
  /\ concurrency = 1
  /\ failOrder = <<1>>
  /\ resolvedWith[2] # <<>>
  /\ outcome.kind = "result"

C35_SettlesWithoutTimeout ==
  (timeout = Infinity) =>
    <>(phase = "settled" /\ \A w \in Workers : wpc[w] = "done")

\* C35 witness: a run without timeout, with a retry after a delay, whose
\* signal aborted while an entry waited for its retry, has settled
C35_Witness ==
  /\ timeout = Infinity
  /\ N = 2
  /\ retry = 1
  /\ retryDelay > 0
  /\ aborted
  /\ ~abortedAtCall
  /\ abortedInDelay # {}
  /\ phase = "settled"

\* C36: with a finite timeout the run settles even when thunks never do;
\* a settled run is either the pool's (every worker returned, and the run
\* resolved or rejected with the captured fail-fast error) or the timer's
\* (the timeout callback ran, and the run rejected with the timeout error)
C36_SettlesWithTimeout ==
  /\ (timeout # Infinity) => <>(phase = "settled")
  /\ []((timeout # Infinity /\ phase = "settled" /\ N > 0) =>
          \/ /\ settledBy = "main"
             /\ \A w \in Workers : wpc[w] = "done"
             /\ \/ outcome.kind = "result"
                \/ /\ FailFastActive
                   /\ Truthy(firstError)
                   /\ outcome = Rejected(firstError.error)
          \/ /\ settledBy = "timer"
             /\ timer = "fired"
             /\ outcome = TimedOut)

\* C36 witness: the timeout elapsed while a thunk was pending, the run
\* rejected with the timeout error and the thunk is pending still
C36_Witness ==
  /\ timeout # Infinity
  /\ timerCause = "time"
  /\ ~aborted
  /\ outcome = TimedOut
  /\ Running > 0

====
